---- MODULE Spec2Model ----
(***************************************************************************)
(* Model of the prop-probability estimation engine of nba-prize-picks:     *)
(* the Distribution Estimator (prop_analyzer.get_probability_distribution), *)
(* the Prop Scorer (analyze_player_stats, calculate_prop_score), the two    *)
(* ranking pipelines (find_best_props, main.analyze_all_props), the         *)
(* Feature Builder (logit.py, logit_for_all.py), the per-prop loop of       *)
(* logit_for_all.py and the request cache of NBAApiWrapper.                 *)
(*                                                                         *)
(* Floats are fixed-point integers.  A stat value or threshold is counted   *)
(* in units of 1/XS, a weight in units of 1/WS, a recency weight in units   *)
(* of 1/RS, a probability in units of 1/PS, a standard-normal argument in   *)
(* units of 1/ZS.                                                           *)
(***************************************************************************)
EXTENDS Integers, Sequences, FiniteSets, TLC

VARIABLES
    stats_data,     \* PropAnalyzer.stats_data: the sequence of game records
    props_data,     \* PropAnalyzer.props_data / the props argument
    pc,             \* which step of the run has been taken
    prob_func,      \* result of the last get_probability_distribution call
    weights,        \* the local `weights` of that call after line 139
    fit_args,       \* the arguments of that call
    query,          \* the last call of the returned prob_over_threshold
    result,         \* what the ranking pipeline that ran returned, and its log
    df,             \* logit.py / logit_for_all.py: the records read into the frame
    features,       \* the feature columns built from df, one entry per kept row
    script,         \* logit_for_all.py: the frame's stat columns, y, model and predictions
    cache,          \* NBAApiWrapper: the files of cache_dir, by cache key
    now,            \* time.time()
    call            \* the last _make_request call and what it did

fitVars == <<prob_func, weights, fit_args, query>>
featVars == <<df, features>>
apiVars == <<cache, now, call>>
vars == <<stats_data, props_data, pc, prob_func, weights, fit_args, query, result, df, features,
          script, cache, now, call>>

-----------------------------------------------------------------------------
(* Fixed-point units *)
XS == 20        \* stat values and thresholds: 1/20
WS == 1000      \* normalized weights: 1/1000
RS == 1000      \* recency weights: 1/1000
PS == 10000     \* probabilities: 1/10000
ZS == 100       \* standard-normal arguments: 1/100
FS == 40        \* Silverman factor: 1/40

(* Bounds of the model *)
MaxGames == 11      \* records loaded into stats_data
ExpOrder == 6       \* terms of the series that stands for np.exp

None == [tag |-> "None"]
NaN == [tag |-> "nan"]

Abs(x) == IF x < 0 THEN -x ELSE x
Max2(a, b) == IF a >= b THEN a ELSE b
Min2(a, b) == IF a <= b THEN a ELSE b

RECURSIVE SumSeq(_)
SumSeq(s) == IF s = <<>> THEN 0 ELSE Head(s) + SumSeq(Tail(s))

RECURSIVE MaxSeq(_)
MaxSeq(s) == IF Len(s) = 1 THEN s[1] ELSE Max2(Head(s), MaxSeq(Tail(s)))

(* The `min` field of a game record: a numeric string such as "32", a      *)
(* did-not-play sentinel "--", or null.                                     *)
MinNum(m) == [k |-> "num", m |-> m]
MinDNP == [k |-> "dnp", m |-> 0]
MinNull == [k |-> "null", m |-> 0]
MinClock(m) == [k |-> "mmss", m |-> m]      \* "MM:SS"
MinEmpty == [k |-> "empty", m |-> 0]        \* ""

Game(p, mn, pts) == [player |-> p, min |-> mn, points |-> pts]

(* STAT_TYPE_MAPPING: "Fantasy Score" is a key mapped to None; a stat type  *)
(* such as "Pts+Rebs" is no key at all.                                     *)
MappedStatTypes == {"Points", "Fantasy Score"}
STAT_TYPE_MAPPING(stat_type) ==
    IF stat_type = "Points" THEN "points" ELSE "None"

(* game.get(stat_key, 0): the field, or the default 0 for a key no record has *)
GameGet(game, stat_key) == IF stat_key = "points" THEN game.points ELSE 0

(* the list comprehension that selects a player's games by full name *)
PlayerStats(data, player_name) == SelectSeq(data, LAMBDA g : g.player = player_name)

-----------------------------------------------------------------------------
(* float(game.get('min', 0)): a number for a numeric string, ValueError or  *)
(* TypeError (the record is skipped) for a sentinel or null.                *)
FloatOk(mn) == mn.k = "num"

(* lines 111-122: the values and minutes of the games with mins > 0 *)
ValidGame(game) == FloatOk(game.min) /\ game.min.m > 0
ValidGames(player_stats) == SelectSeq(player_stats, ValidGame)

(* np.exp(-i / n) by its series 1 - x(1 - x/2(1 - x/3(...))), x = i/n, in 1/RS *)
RECURSIVE ExpTerm(_, _, _)
ExpTerm(i, n, k) ==
    IF k > ExpOrder THEN RS
    ELSE RS - ((i * ExpTerm(i, n, k + 1)) \div (n * k))

NpExpNeg(i, n) == ExpTerm(i, n, 1)

RecencyFloor == 100     \* the flat 0.1, in 1/RS

(* line 132; i counts from 0 *)
recency_weight(i, num_recent_games) ==
    IF i < num_recent_games THEN NpExpNeg(i, num_recent_games) ELSE RecencyFloor

(* lines 130-132: the recency weight of each valid game, in the order of   *)
(* the list; enumerate() counts from the first record of the player         *)
RecencyWeights(num_valid, num_recent_games) ==
    [j \in 1..num_valid |-> recency_weight(j - 1, num_recent_games)]

(* line 134 times 2 * sum(minutes), which is positive:                      *)
(* 1 - |mins - avg| / (2 avg) = (2T - |n mins - T|) / (2T), T = sum, n = len *)
minutes_weight_num(mins, T, n) == 2 * T - Abs(n * mins - T)

(* lines 128-135: the combined weights, times 2T *)
RawWeights(minutes, num_recent_games) ==
    LET T == SumSeq(minutes)
        n == Len(minutes)
    IN  [j \in 1..n |->
            recency_weight(j - 1, num_recent_games) * minutes_weight_num(minutes[j], T, n)]

(* line 139: weights / weights.sum(); a zero sum gives inf and nan entries *)
DivRound(a, b) ==
    IF b > 0 THEN (a + b \div 2) \div b ELSE ((-a) + (-b) \div 2) \div (-b)

(* neg: some normalized weight is below zero (kept apart from w, whose     *)
(* rounding to 1/WS would turn a small negative weight into 0)              *)
NormalizedWeights(raw) ==
    LET S == SumSeq(raw)
    IN  IF S = 0 THEN NaN
        ELSE [tag |-> "ok",
              w |-> [j \in 1..Len(raw) |-> DivRound(raw[j] * WS, S)],
              neg |-> \E j \in 1..Len(raw) : (S > 0 /\ raw[j] < 0) \/ (S < 0 /\ raw[j] > 0)]

-----------------------------------------------------------------------------
(* scipy.stats.gaussian_kde(values, weights=weights, bw_method='silverman'), *)
(* as far as line 142 and line 150 use it.                                  *)

ISqrt(x) == CHOOSE k \in 0..200 : k * k <= x /\ (k + 1) * (k + 1) > x

Pow5(k) == k * k * k * k * k

(* the standard normal CDF scipy.special.ndtr at 0, 0.25, ..., 4, in 1/PS *)
NdtrTable == <<5000, 5987, 6915, 7734, 8413, 8944, 9332, 9599, 9772,
               9878, 9938, 9970, 9987, 9994, 9998, 9999, 10000>>
NdtrStep == 25      \* the table's step 0.25, in 1/ZS

NdtrPos(z) ==
    LET i == z \div NdtrStep
        f == z % NdtrStep
    IN  IF i + 1 >= Len(NdtrTable) THEN PS
        ELSE NdtrTable[i + 1] + ((NdtrTable[i + 2] - NdtrTable[i + 1]) * f) \div NdtrStep

Ndtr(z) == IF z >= 0 THEN NdtrPos(z) ELSE PS - NdtrPos(-z)

(* np.cov(values, aweights=w) raises ValueError for a negative weight; with  *)
(* nan weights, one point or equal values the covariance is nan or zero and  *)
(* the Cholesky factorization raises.  Otherwise the bandwidth is           *)
(* sqrt(cov) * (neff * 3/4) ** (-1/5), neff = 1 / sum(w ** 2).               *)
WeightedMean(values, w) ==
    SumSeq([j \in 1..Len(values) |-> w[j] * values[j]]) \div SumSeq(w)

DataCovariance(values, w) ==
    LET mu == WeightedMean(values, w)
        num == SumSeq([j \in 1..Len(values) |-> w[j] * (values[j] - mu) * (values[j] - mu)])
        sw2 == SumSeq([j \in 1..Len(values) |-> w[j] * w[j]])
        den == (WS * WS - sw2) \div WS
    IN  IF den <= 0 THEN 0 ELSE num \div den

SilvermanFactor(w) ==
    LET sw2 == SumSeq([j \in 1..Len(w) |-> w[j] * w[j]])
        q10 == ((15 * WS * WS) \div 2) \div sw2
        lim == (Pow5(FS) * 10) \div q10
    IN  CHOOSE k \in 0..(FS + 3) : Pow5(k) <= lim /\ Pow5(k + 1) > lim

Bandwidth(values, w) ==
    Max2(1, (ISqrt(DataCovariance(values, w)) * SilvermanFactor(w)) \div FS)

GaussianKde(values, nw) ==
    IF nw.tag = "nan" THEN [tag |-> "raise"]
    ELSE IF nw.neg THEN [tag |-> "raise"]
    ELSE IF SumSeq(nw.w) = 0 \/ DataCovariance(values, nw.w) <= 0 THEN [tag |-> "raise"]
    ELSE [tag |-> "kde", dataset |-> values, w |-> nw.w, h |-> Bandwidth(values, nw.w)]

(* kde.integrate_box_1d(low, high) = sum_j w[j] (ndtr((high - v[j]) / h) - ndtr((low - v[j]) / h)) *)
IntegrateBox1d(kde, low, high) ==
    SumSeq([j \in 1..Len(kde.dataset) |->
        kde.w[j] * (Ndtr(((high - kde.dataset[j]) * ZS) \div kde.h)
                    - Ndtr(((low - kde.dataset[j]) * ZS) \div kde.h))]) \div SumSeq(kde.w)

-----------------------------------------------------------------------------
(* PropAnalyzer.get_probability_distribution *)

MIN_FIT_GAMES == 10

FloatValues(games, stat_key) == [j \in 1..Len(games) |-> GameGet(games[j], stat_key) * XS]
FloatMinutes(games) == [j \in 1..Len(games) |-> games[j].min.m]

(* lines 127-139: the local `weights` once normalized; "unset" when an      *)
(* earlier return leaves before line 128                                    *)
FitWeights(data, player_name, stat_type, num_recent_games) ==
    LET player_stats == PlayerStats(data, player_name)
        stat_key == STAT_TYPE_MAPPING(stat_type)
        valid == ValidGames(player_stats)
    IN  IF Len(player_stats) < MIN_FIT_GAMES \/ stat_key = "None" \/ valid = <<>>
        THEN [tag |-> "unset"]
        ELSE NormalizedWeights(RawWeights(FloatMinutes(valid), num_recent_games))

(* lines 94-156, the body of the try: None, the closure, or an exception *)
FitBody(data, player_name, stat_type, num_recent_games) ==
    LET player_stats == PlayerStats(data, player_name)
        stat_key == STAT_TYPE_MAPPING(stat_type)
        valid == ValidGames(player_stats)
        values == FloatValues(valid, stat_key)
        kde == GaussianKde(values, FitWeights(data, player_name, stat_type, num_recent_games))
    IN  IF Len(player_stats) < MIN_FIT_GAMES THEN None
        ELSE IF stat_key = "None" THEN None
        ELSE IF valid = <<>> THEN None
        ELSE IF kde.tag = "raise" THEN [tag |-> "raise"]
        ELSE [tag |-> "fn", kde |-> kde, values |-> values]

(* lines 93 and 158-160: every exception of the body becomes None *)
get_probability_distribution(data, player_name, stat_type, num_recent_games) ==
    LET r == FitBody(data, player_name, stat_type, num_recent_games)
    IN  IF r.tag = "raise" THEN None ELSE r

(* as prob_over_threshold, without the clamp of line 151 *)
prob_over_threshold_Unclamped(fn, x) ==
    IntegrateBox1d(fn.kde, x, (MaxSeq(fn.values) * 3) \div 2)

(* as prob_over_threshold, integrating on the wrong side of the threshold: *)
(* the probability of staying at or under x                                 *)
prob_over_threshold_Under(fn, x) ==
    Min2(Max2(IntegrateBox1d(fn.kde, (MaxSeq(fn.values) * 3) \div 2, x) + PS, 0), PS)

(* lines 145-154: the closure; integrate_box_1d raises for no finite x *)
prob_over_threshold(fn, x) ==
    LET upper_bound == (MaxSeq(fn.values) * 3) \div 2
        prob == IntegrateBox1d(fn.kde, x, upper_bound)
    IN  Min2(Max2(prob, 0), PS)

-----------------------------------------------------------------------------
(* Logging: a call returns, with its value, the records it logs *)
LogRec(level, what, who) == [level |-> level, what |-> what, who |-> who]

(* the records get_probability_distribution logs: lines 102, 107, 159 *)
FitLog(data, player_name, stat_type, num_recent_games) ==
    LET player_stats == PlayerStats(data, player_name)
        r == FitBody(data, player_name, stat_type, num_recent_games)
    IN  IF Len(player_stats) < MIN_FIT_GAMES
            THEN <<LogRec("warning", "Insufficient games", player_name)>>
        ELSE IF STAT_TYPE_MAPPING(stat_type) = "None"
            THEN <<LogRec("error", "Unknown stat type", player_name)>>
        ELSE IF r.tag = "raise"
            THEN <<LogRec("error", "Error creating probability distribution", player_name)>>
        ELSE <<>>

-----------------------------------------------------------------------------
(* PropAnalyzer.get_probabilities_table *)

DEFAULT_NUM_RECENT_GAMES == 20
DefaultStep == 10       \* step = 0.5, in 1/XS

(* Python's round(x, n): to the nearest multiple of `unit`, ties to even *)
RoundHalfEven(x, unit) ==
    LET q == x \div unit
        r == x % unit
    IN  IF 2 * r < unit THEN q * unit
        ELSE IF 2 * r > unit THEN (q + 1) * unit
        ELSE IF q % 2 = 0 THEN q * unit ELSE (q + 1) * unit

(* np.arange(0, stop, step): 0, step, ... below stop *)
NpArange(stop, step) ==
    LET n == IF stop <= 0 THEN 0 ELSE (stop + step - 1) \div step
    IN  [j \in 1..n |-> (j - 1) * step]

(* as ProbabilityRows, pairing each threshold with the probability of the  *)
(* next one                                                                 *)
ProbabilityRows_NextThreshold(fn, values, step) ==
    LET thresholds == NpArange(MaxSeq(values) + step, step)
    IN  IF fn.tag # "fn" THEN <<>>
        ELSE IF values = <<>> THEN <<>>
        ELSE [j \in 1..Len(thresholds) |->
                [threshold |-> RoundHalfEven(thresholds[j], XS \div 10),
                 probability |-> RoundHalfEven(prob_over_threshold(fn, thresholds[j] + step),
                                               PS \div 1000)]]

(* lines 173-174 and 187-203: the rows, given the fit and the values of line 185 *)
ProbabilityRows(fn, values, step) ==
    LET thresholds == NpArange(MaxSeq(values) + step, step)
    IN  IF fn.tag # "fn" THEN <<>>
        ELSE IF values = <<>> THEN <<>>
        ELSE [j \in 1..Len(thresholds) |->
                [threshold |-> RoundHalfEven(thresholds[j], XS \div 10),
                 probability |-> RoundHalfEven(prob_over_threshold(fn, thresholds[j]), PS \div 1000)]]

(* lines 172-203 *)
get_probabilities_table(data, player_name, stat_type, num_recent_games, step) ==
    LET stat_key == STAT_TYPE_MAPPING(stat_type)
        truthy == SelectSeq(PlayerStats(data, player_name), LAMBDA g : GameGet(g, stat_key) # 0)
    IN  ProbabilityRows(get_probability_distribution(data, player_name, stat_type, num_recent_games),
                        FloatValues(truthy, stat_key), step)

-----------------------------------------------------------------------------
(* PropAnalyzer.analyze_player_stats *)

RECURSIVE ISqrtIn(_, _, _)
ISqrtIn(x, lo, hi) ==
    IF lo >= hi THEN lo
    ELSE LET mid == (lo + hi + 1) \div 2
         IN  IF mid * mid <= x THEN ISqrtIn(x, mid, hi) ELSE ISqrtIn(x, lo, mid - 1)

MeanOf(s) == SumSeq(s) \div Len(s)

(* statistics.stdev(minutes), in 1/100 *)
Stdev100(s) ==
    LET n == Len(s)
        T == SumSeq(s)
        ss == SumSeq([j \in 1..n |-> (n * s[j] - T) * (n * s[j] - T)])
    IN  ISqrtIn(((ss * 100) \div (n * n * (n - 1))) * 100, 0, 10000)

LastN(s, n) == IF Len(s) <= n THEN s ELSE SubSeq(s, Len(s) - n + 1, Len(s))

RECENT_GAMES == 10

EmptyAnalysis == [keys |-> {}]

(* lines 222-236: a null `min` is skipped, "--" makes float() raise (logged, *)
(* skipped), a numeric string (also "0") is counted                         *)
CountedGame(game) == game.min.k = "num"

AnalysisLog(player_stats) ==
    LET bad == SelectSeq(player_stats, LAMBDA g : g.min.k = "dnp")
    IN  [j \in 1..Len(bad) |-> LogRec("error", "Error processing game", bad[j].player)]

(* lines 248-287: the result, given the lists of lines 213-246 and the fit *)
(* of line 272                                                              *)
AnalysisResult(prop_type, line_score, values, minutes, recent_values, fn) ==
    LET above == SelectSeq(values, LAMBDA v : v > line_score)
        differences_when_above == [j \in 1..Len(above) |-> above[j] - line_score]
        recent_hits == Len(SelectSeq(recent_values, LAMBDA v : v > line_score))
        base == {"games_played", "times_above_line", "average_value", "average_minutes",
                 "minutes_stdev", "average_difference", "stat_type", "line_score",
                 "recent_average", "recent_hit_rate", "recent_values"}
    IN  IF values = <<>> THEN EmptyAnalysis
        ELSE [keys |-> IF fn.tag = "fn"
                       THEN base \cup {"probability_over_line", "probability_distribution"}
                       ELSE base,
              games_played |-> Len(values),
              times_above_line |-> Len(differences_when_above),
              average_value |-> MeanOf(values),
              average_minutes |-> MeanOf(minutes) ,
              minutes_stdev |-> IF Len(minutes) > 1 THEN Stdev100(minutes) ELSE 0,
              average_difference |-> IF above # <<>> THEN MeanOf(differences_when_above) ELSE 0,
              stat_type |-> prop_type,
              line_score |-> line_score,
              recent_average |-> IF recent_values # <<>> THEN MeanOf(recent_values) ELSE 0,
              recent_hit_rate |-> IF recent_values # <<>>
                                  THEN (recent_hits * PS) \div Len(recent_values) ELSE 0,
              recent_values |-> LastN(recent_values, RECENT_GAMES),
              probability_over_line |->
                  IF fn.tag = "fn" THEN prob_over_threshold(fn, line_score) ELSE 0]

(* as analyze_player_stats, fitting with the recent window of line 218 as  *)
(* the recency window                                                       *)
analyze_player_stats_OtherWindow(data, player_stats, prop_type, line_score) ==
    LET stat_key == STAT_TYPE_MAPPING(prop_type)
        counted == SelectSeq(player_stats, CountedGame)
    IN  AnalysisResult(prop_type, line_score,
                       FloatValues(counted, stat_key),
                       FloatMinutes(counted),
                       FloatValues(LastN(player_stats, RECENT_GAMES), stat_key),
                       IF counted = <<>> THEN None
                       ELSE get_probability_distribution(data, player_stats[1].player, prop_type,
                                                         RECENT_GAMES))

(* lines 209-287; line_score is a float.  float() of a stat field does not *)
(* raise, so recent_values has one entry per recent game.                   *)
analyze_player_stats(data, player_stats, prop_type, line_score) ==
    LET stat_key == STAT_TYPE_MAPPING(prop_type)
        counted == SelectSeq(player_stats, CountedGame)
    IN  AnalysisResult(prop_type, line_score,
                       FloatValues(counted, stat_key),
                       FloatMinutes(counted),
                       FloatValues(LastN(player_stats, RECENT_GAMES), stat_key),
                       IF counted = <<>> THEN None
                       ELSE get_probability_distribution(data, player_stats[1].player, prop_type,
                                                         DEFAULT_NUM_RECENT_GAMES))

(* as calculate_prop_score, without the cap of the sample size factor *)
calculate_prop_score_NoCap(analysis) ==
    IF analysis = EmptyAnalysis THEN 0
    ELSE ((analysis.times_above_line * 4000) \div analysis.games_played)
         + ((analysis.average_difference * 300) \div XS)
         + ((2000 * 100) \div (100 + analysis.minutes_stdev))
         + analysis.games_played * 50

(* lines 289-311, in 1/PS *)
calculate_prop_score(analysis) ==
    IF analysis = EmptyAnalysis THEN 0
    ELSE LET hit_rate == (analysis.times_above_line * 4000) \div analysis.games_played
             difference == (analysis.average_difference * 300) \div XS
             minutes_consistency == (2000 * 100) \div (100 + analysis.minutes_stdev)
             sample_size_factor == Min2(analysis.games_played * 50, 1000)
         IN  hit_rate + difference + minutes_consistency + sample_size_factor

-----------------------------------------------------------------------------
(* sorted(items, key=..., reverse=True): descending by key, items of equal *)
(* key in their original order.  keys[j] is the key of items[j].            *)

(* as InsertDesc, placing an item ahead of the items of equal key *)
InsertDesc_BeforeEqual(done, item, key) ==
    LET ahead == SelectSeq(done, LAMBDA e : e.key > key)
        behind == SelectSeq(done, LAMBDA e : e.key <= key)
    IN  ahead \o <<[item |-> item, key |-> key]>> \o behind

InsertDesc(done, item, key) ==
    LET ahead == SelectSeq(done, LAMBDA e : e.key >= key)
        behind == SelectSeq(done, LAMBDA e : e.key < key)
    IN  ahead \o <<[item |-> item, key |-> key]>> \o behind

RECURSIVE SortKeyed(_, _)
SortKeyed(items, keys) ==
    IF items = <<>> THEN <<>>
    ELSE InsertDesc(SortKeyed(SubSeq(items, 1, Len(items) - 1), SubSeq(keys, 1, Len(keys) - 1)),
                    items[Len(items)], keys[Len(keys)])

SortedReverse(items, keys) ==
    LET done == SortKeyed(items, keys)
    IN  [j \in 1..Len(done) |-> done[j].item]

-----------------------------------------------------------------------------
(* A prop: parse_projections (prize_picks_scraper.py) builds it with a     *)
(* 'player' dictionary and copies line_score as the feed gives it, a number *)
(* or null.                                                                 *)
LineNum(v) == [k |-> "num", v |-> v]
LineNull == [k |-> "null", v |-> 0]
Prop(id, name, stat_type, line_score) ==
    [projection_id |-> id, name |-> name, stat_type |-> stat_type, line_score |-> line_score]

DEFAULT_MIN_GAMES == 5

Skip(log) == [raise |-> FALSE, items |-> <<>>, log |-> log]
Raise == [raise |-> TRUE, items |-> <<>>, log |-> <<>>]

(* lines 341-366: the try of one pass, given what analyze_player_stats     *)
(* returns and logs (alog: its loop, flog: the fit of line 272)             *)
BestPropsTry(prop, analysis, alog, flog) ==
    IF prop.line_score.k # "num"
        THEN Skip(<<LogRec("error", "Error analyzing", prop.name)>>)
    ELSE IF analysis = EmptyAnalysis
        THEN Skip(alog \o <<LogRec("warning", "No valid analysis", prop.name)>>)
    ELSE [raise |-> FALSE,
          items |-> <<[prop |-> prop, analysis |-> analysis,
                       score |-> calculate_prop_score(analysis)]>>,
          log |-> alog \o flog]

(* PropAnalyzer.find_best_props, lines 318-366: one pass of the loop *)
BestPropsStep(data, prop, min_games) ==
    LET player_stats == PlayerStats(data, prop.name)
    IN  IF Len(player_stats) < min_games THEN Skip(<<>>)
        ELSE IF prop.stat_type \notin MappedStatTypes THEN Skip(<<>>)
        ELSE BestPropsTry(prop,
                          analyze_player_stats(data, player_stats, prop.stat_type, prop.line_score.v),
                          AnalysisLog(player_stats),
                          FitLog(data, prop.name, prop.stat_type, DEFAULT_NUM_RECENT_GAMES))

(* main.analyze_all_props, lines 15-48: the outcome of one pass, given what *)
(* its calls return and log (flog: one fit, alog: the loop of               *)
(* analyze_player_stats); float() of a null line_score raises TypeError,    *)
(* which nothing catches                                                    *)
AllPropsPass(prop, prob_table, fn, analysis, flog, alog) ==
    IF prop.line_score.k # "num" THEN Raise
    ELSE IF prob_table = <<>> THEN Skip(flog)
    ELSE IF fn.tag # "fn" THEN Skip(flog \o flog)
    ELSE IF analysis = EmptyAnalysis THEN Skip(flog \o flog \o alog)
    ELSE [raise |-> FALSE,
          items |-> <<[prop |-> prop, analysis |-> analysis,
                       probability_table |-> prob_table,
                       over_line |-> RoundHalfEven(prob_over_threshold(fn, prop.line_score.v),
                                                   PS \div 1000)]>>,
          log |-> flog \o flog \o alog \o flog]

(* main.analyze_all_props, lines 12-48: one pass of the loop *)
AllPropsStep(data, prop) ==
    AllPropsPass(prop,
                 get_probabilities_table(data, prop.name, prop.stat_type,
                                         DEFAULT_NUM_RECENT_GAMES, DefaultStep),
                 get_probability_distribution(data, prop.name, prop.stat_type,
                                              DEFAULT_NUM_RECENT_GAMES),
                 analyze_player_stats(data, PlayerStats(data, prop.name), prop.stat_type,
                                      prop.line_score.v),
                 FitLog(data, prop.name, prop.stat_type, DEFAULT_NUM_RECENT_GAMES),
                 AnalysisLog(PlayerStats(data, prop.name)))

(* the loop: the passes in order, ended by the first exception that escapes *)
RECURSIVE RunLoop(_, _)
RunLoop(steps, acc) ==
    IF steps = <<>> THEN acc
    ELSE IF Head(steps).raise
        THEN [status |-> "raised", emitted |-> acc.emitted, log |-> acc.log, seen |-> acc.seen + 1]
    ELSE RunLoop(Tail(steps),
                 [status |-> "returned",
                  emitted |-> acc.emitted \o Head(steps).items,
                  log |-> acc.log \o Head(steps).log,
                  seen |-> acc.seen + 1])

LoopStart == [status |-> "returned", emitted |-> <<>>, log |-> <<>>, seen |-> 0]

(* what a pipeline leaves: r is the loop's outcome, keys[j] the sort key of *)
(* r.emitted[j]; `seen` counts the props the loop reached                   *)
PipelineReturn(op, r, keys) ==
    [op |-> op, status |-> r.status, seen |-> r.seen, log |-> r.log, emitted |-> r.emitted,
     out |-> IF r.status = "raised" THEN <<>> ELSE SortedReverse(r.emitted, keys)]

ScoreKeys(emitted) == [j \in 1..Len(emitted) |-> emitted[j].score]
OverLineKeys(emitted) == [j \in 1..Len(emitted) |-> emitted[j].over_line]

BestPropsReturn(r) == PipelineReturn("find_best_props", r, ScoreKeys(r.emitted))
AllPropsReturn(r) == PipelineReturn("analyze_all_props", r, OverLineKeys(r.emitted))

(* lines 313-369 *)
find_best_props(data, props, min_games) ==
    BestPropsReturn(RunLoop([j \in 1..Len(props) |-> BestPropsStep(data, props[j], min_games)],
                            LoopStart))

(* main.py lines 8-51 *)
analyze_all_props(data, props) ==
    AllPropsReturn(RunLoop([j \in 1..Len(props) |-> AllPropsStep(data, props[j])], LoopStart))

-----------------------------------------------------------------------------
(* Feature Builder: logit.py lines 20-46, logit_for_all.py lines 47-56 and  *)
(* 82-91.  The stat column is totReb in logit.py and STAT_MAP[stat_type] in *)
(* logit_for_all.py; the model's records carry one stat column.             *)

WINDOW == 10

(* df[df["min"].notna() & (df["min"] != "--") & (df["min"] != "-")] *)
KeptRow(row) == row.min.k \notin {"null", "dnp"}
FilterFrame(rows) == SelectSeq(rows, KeptRow)

(* df["min"].str.split(":").str[0].astype(int): the digits before the     *)
(* colon; int() of anything else (the empty string) raises ValueError       *)
ParseOk(mn) == mn.k \in {"num", "mmss"}
ParseMinutes(mn) == mn.m

Mean100(s) == (SumSeq(s) * 100) \div Len(s)

(* the rows of player p before row j of the frame, in order *)
PriorOf(frame, j) ==
    SelectSeq(SubSeq(frame, 1, j - 1), LAMBDA r : r.player = frame[j].player)

(* x.expanding().mean().shift(), then fillna 0 *)
HistoricalAvg(col) == IF col = <<>> THEN 0 ELSE Mean100(col)

(* as MovingAvg, without the shift: the window ends with the current game *)
MovingAvg_NoShift(prior, current) ==
    Mean100(LastN(Append(prior, current), WINDOW))

(* as MovingAvg, with no window: the mean of the whole history *)
MovingAvg_Expanding(prior, current) ==
    IF prior = <<>> THEN 0 ELSE Mean100(prior)

(* x.shift().rolling(window=10, min_periods=1).mean(), then fillna 0;       *)
(* prior: the column before the current game, current: the game's own value *)
MovingAvg(prior, current) ==
    IF prior = <<>> THEN 0 ELSE Mean100(LastN(prior, WINDOW))

FeatureRow(frame, j) ==
    LET prior == PriorOf(frame, j)
        mins == [i \in 1..Len(prior) |-> ParseMinutes(prior[i].min)]
        stat == [i \in 1..Len(prior) |-> prior[i].points]
    IN  [historical_avg_mins |-> HistoricalAvg(mins),
         moving_avg_mins |-> MovingAvg(mins, ParseMinutes(frame[j].min)),
         historical_avg_stat |-> HistoricalAvg(stat),
         moving_avg_stat |-> MovingAvg(stat, frame[j].points)]

BuildFeatureColumns(rows) ==
    LET frame == FilterFrame(rows)
    IN  [j \in 1..Len(frame) |-> FeatureRow(frame, j)]

(* the astype(int) of the filtered column raises, and the script ends *)
ParseRaises(rows) == \E j \in 1..Len(rows) : KeptRow(rows[j]) /\ ~ParseOk(rows[j].min)

-----------------------------------------------------------------------------
(* The per-prop loop of logit_for_all.py (lines 59-134).  The frame df is   *)
(* the record of its rows and feature columns; a column not yet assigned is *)
(* <<>>.  A fitted LogisticRegression is a function of the training rows it *)
(* is given (solver and random_state are fixed): it stands here as the      *)
(* record of those rows and labels, and a prediction or a metric as the     *)
(* record of the model and the rows it is applied to.                       *)

(* STAT_MAP, lines 25-37: of the keys not commented out, two *)
STAT_MAP(stat_type) ==
    IF stat_type = "Assists" THEN "assists"
    ELSE IF stat_type = "Rebounds" THEN "totReb"
    ELSE "None"

StatRow(p, mn, ast, reb) == [player |-> p, min |-> mn, assists |-> ast, totReb |-> reb]
RowStat(row, stat) == IF stat = "assists" THEN row.assists ELSE row.totReb

PriorMins(rows, j) ==
    LET prior == PriorOf(rows, j) IN [i \in 1..Len(prior) |-> ParseMinutes(prior[i].min)]
PriorStat(rows, j, stat) ==
    LET prior == PriorOf(rows, j) IN [i \in 1..Len(prior) |-> RowStat(prior[i], stat)]

(* lines 47-57: the filtered frame with its minutes features *)
PreparedFrame(records) ==
    LET rows == FilterFrame(records)
    IN  [rows |-> rows,
         historical_avg_mins |-> [j \in 1..Len(rows) |-> HistoricalAvg(PriorMins(rows, j))],
         moving_avg_mins |->
             [j \in 1..Len(rows) |-> MovingAvg(PriorMins(rows, j), ParseMinutes(rows[j].min))],
         historical_avg_stat |-> <<>>,
         moving_avg_stat |-> <<>>]

(* lines 82-91: the two stat columns, computed from the column `stat` *)
StatColumns(rows, stat) ==
    [historical_avg_stat |-> [j \in 1..Len(rows) |-> HistoricalAvg(PriorStat(rows, j, stat))],
     moving_avg_stat |->
         [j \in 1..Len(rows) |-> MovingAvg(PriorStat(rows, j, stat), RowStat(rows[j], stat))]]

(* as AssignStatColumns, assigning the columns only when the frame has none *)
AssignStatColumns_OnlyIfMissing(frame, stat) ==
    IF frame.historical_avg_stat # <<>> THEN frame
    ELSE [frame EXCEPT !.historical_avg_stat = StatColumns(frame.rows, stat).historical_avg_stat,
                       !.moving_avg_stat = StatColumns(frame.rows, stat).moving_avg_stat]

(* lines 82-91: df["historical_avg_stat"] = ..., df["moving_avg_stat"] = ... *)
AssignStatColumns(frame, stat) ==
    [frame EXCEPT !.historical_avg_stat = StatColumns(frame.rows, stat).historical_avg_stat,
                  !.moving_avg_stat = StatColumns(frame.rows, stat).moving_avg_stat]

(* lines 93-94: X = df[features] *)
FeatureMatrix(frame) ==
    [j \in 1..Len(frame.rows) |->
        <<frame.historical_avg_mins[j], frame.moving_avg_mins[j],
          frame.historical_avg_stat[j], frame.moving_avg_stat[j]>>]

(* line 97: y = df[stat] > value *)
Labels(rows, stat, value) == [j \in 1..Len(rows) |-> RowStat(rows[j], stat) * XS > value]

(* line 100: ceil(0.2 n) rows are held out *)
TestSize(n) == (n + 4) \div 5

Restrict(col, idx) == [j \in idx |-> col[j]]

(* lines 105-106 *)
LogisticRegression(X, y, train) == [X |-> Restrict(X, train), y |-> Restrict(y, train)]

(* lines 109-111: accuracy, confusion matrix and coefficients *)
ModelInfo(model, X, y, test) ==
    [model |-> model, X_test |-> Restrict(X, test), y_test |-> Restrict(y, test)]

(* line 116: the last row of the player *)
PlayerRecord(rows, player_name) ==
    CHOOSE j \in 1..Len(rows) :
        /\ rows[j].player = player_name
        /\ \A i \in (j + 1)..Len(rows) : rows[i].player # player_name

(* lines 60-134: one iteration of the loop; test is the set of rows that    *)
(* train_test_split holds out                                               *)
LoopBody(st, prop, test) ==
    LET rows == st.frame.rows
        stat == STAT_MAP(prop.stat_type)
        next == [st EXCEPT !.i = st.i + 1]
    IN  IF \A j \in 1..Len(rows) : rows[j].player # prop.name THEN next
        ELSE IF stat = "None" THEN next
        ELSE LET frame == AssignStatColumns(st.frame, stat)
                 assigned == [next EXCEPT !.frame = frame]
             IN  IF prop.line_score.k # "num" THEN [assigned EXCEPT !.pc = "raised"]
                 ELSE LET X == FeatureMatrix(frame)
                          y == Labels(rows, stat, prop.line_score.v)
                          train == (1..Len(rows)) \ test
                          labelled == [assigned EXCEPT !.y = y]
                      IN  IF train = {} \/ \A i, j \in train : y[i] = y[j]
                          THEN [labelled EXCEPT !.pc = "raised"]
                          ELSE LET model == LogisticRegression(X, y, train)
                               IN  [labelled EXCEPT
                                      !.model = model,
                                      !.predictions = Append(@,
                                          [player_name |-> prop.name,
                                           stat_type |-> prop.stat_type,
                                           value |-> prop.line_score.v,
                                           probability |->
                                               [model |-> model,
                                                at |-> X[PlayerRecord(rows, prop.name)]],
                                           model_info |-> ModelInfo(model, X, y, test)])]

-----------------------------------------------------------------------------
(* The request cache of NBAApiWrapper (nba_api_wrapper.py lines 15-113).    *)
(* params is a dict: here the sequence of its <<name, value>> items in      *)
(* insertion order, no name twice.  A cache file is named by the MD5 of the *)
(* string built at lines 44-47; the key of the model is what that string is *)
(* built from, the endpoint and the items in the order they are joined.     *)

cache_ttl == 3600       \* seconds

(* the parameter names in use, in the order sorted() gives them *)
ParamNames == <<"season", "team">>

ItemsOf(params) == {params[i] : i \in 1..Len(params)}

(* as _get_cache_key, joining the items in the order of the dict *)
_get_cache_key_Unsorted(endpoint, params) ==
    [endpoint |-> endpoint, items |-> params]

(* lines 41-50: sorted(params.items()) orders the items by name *)
_get_cache_key(endpoint, params) ==
    LET names == SelectSeq(ParamNames, LAMBDA nm : \E it \in ItemsOf(params) : it[1] = nm)
    IN  [endpoint |-> endpoint,
         items |-> [j \in 1..Len(names) |-> CHOOSE it \in ItemsOf(params) : it[1] = names[j]]]

(* a cache file: one written whole by _save_to_cache, or one cut short      *)
(* (json.load raises JSONDecodeError)                                       *)
CacheFile(cached_at, data) == [tag |-> "json", cached_at |-> cached_at, data |-> data]
Truncated == [tag |-> "truncated"]

(* lines 52-67: the data of a file that exists, loads and is younger than   *)
(* cache_ttl, else None                                                     *)
_get_cached_response(files, cache_key, time) ==
    IF cache_key \in DOMAIN files
    THEN IF files[cache_key].tag = "json" /\ time - files[cache_key].cached_at < cache_ttl
         THEN files[cache_key].data
         ELSE None
    ELSE None

(* lines 69-79 *)
_save_to_cache(files, cache_key, data, time) ==
    (cache_key :> CacheFile(time, data)) @@ files

(* what requests.get and the write of the file can do: a JSON body, a       *)
(* RequestException, or a body followed by an OSError of the write, which   *)
(* leaves the file opened at line 78 cut short                              *)
Responses == {[results |-> 0], [results |-> 2]}
Outcomes == [kind : {"ok", "write_error"}, data : Responses] \cup {[kind |-> "fail", data |-> None]}

NoCall == [n |-> 0]

(* what the record of a call keeps of the call before it *)
Summary(last) ==
    IF last = NoCall THEN NoCall
    ELSE [n |-> last.n, endpoint |-> last.endpoint, params |-> last.params,
          at |-> last.at, network |-> last.network, data |-> last.data]

(* lines 81-113: the files afterwards and the record of the call *)
_make_request(files, time, last, endpoint, params, outcome) ==
    LET cache_key == _get_cache_key(endpoint, params)
        cached_response == _get_cached_response(files, cache_key, time)
        base == [n |-> last.n + 1, endpoint |-> endpoint, params |-> params, at |-> time,
                 before |-> files, prev |-> Summary(last)]
    IN  IF cached_response # None
        THEN [files |-> files,
              call |-> base @@ [network |-> FALSE, response |-> "none",
                                status |-> "returned", data |-> cached_response]]
        ELSE IF outcome.kind = "fail"
        THEN [files |-> files,
              call |-> base @@ [network |-> TRUE, response |-> "fail",
                                status |-> "raised", data |-> None]]
        ELSE IF outcome.kind = "write_error"
        THEN [files |-> (cache_key :> Truncated) @@ files,
              call |-> base @@ [network |-> TRUE, response |-> "ok",
                                status |-> "raised", data |-> None]]
        ELSE [files |-> _save_to_cache(files, cache_key, outcome.data, time),
              call |-> base @@ [network |-> TRUE, response |-> "ok",
                                status |-> "returned", data |-> outcome.data]]

-----------------------------------------------------------------------------
(* The inputs *)

GamePalette == <<
    Game("A", MinNum(51), 9),
    Game("A", MinNum(5), 5),
    Game("A", MinNum(9), 8),
    Game("A", MinDNP, 0),
    Game("A", MinNum(0), 0),
    Game("B", MinNum(30), 9) >>

(* a record that is not of the palette sorts after every kind of it *)
PaletteIndex(game) ==
    IF \E i \in 1..Len(GamePalette) : GamePalette[i] = game
    THEN CHOOSE i \in 1..Len(GamePalette) : GamePalette[i] = game
    ELSE Len(GamePalette) + 1

(* a series of ten played games: nine of 7 minutes with 0 points (1 point  *)
(* in the fifth) and one of 27 minutes, three times the mean of 9, with 10  *)
OutlierGames ==
    [j \in 1..10 |-> IF j = 10 THEN Game("A", MinNum(27), 10)
                     ELSE Game("A", MinNum(7), IF j = 5 THEN 1 ELSE 0)]

RecencyWindows == {1, 20}
Thresholds == {-100, 0, 90, 110, 150, 170, 270, 1000}

NoQuery == [x |-> 0, p |-> -1]
NoResult == [op |-> "none"]
NoScript == [pc |-> "start"]

Init ==
    /\ stats_data = <<>>
    /\ props_data = <<>>
    /\ pc = "load"
    /\ prob_func = None
    /\ weights = [tag |-> "unset"]
    /\ fit_args = [player |-> "A", stat_type |-> "Points", n |-> 20]
    /\ query = NoQuery
    /\ result = NoResult
    /\ df = <<>>
    /\ features = <<>>
    /\ script = NoScript
    /\ cache = <<>>
    /\ now = 0
    /\ call = NoCall

(* the records arrive grouped by kind, in the order of the palette *)
AddGame(i) ==
    /\ pc = "load"
    /\ Len(stats_data) < MaxGames
    /\ IF stats_data = <<>> THEN TRUE ELSE PaletteIndex(stats_data[Len(stats_data)]) <= i
    /\ stats_data' = Append(stats_data, GamePalette[i])
    /\ UNCHANGED <<props_data, pc, fitVars, result, featVars, script, apiVars>>

LoadOutlier ==
    /\ pc = "load"
    /\ stats_data = <<>>
    /\ stats_data' = OutlierGames
    /\ UNCHANGED <<props_data, pc, fitVars, result, featVars, script, apiVars>>

Fit(player_name, stat_type, n) ==
    /\ pc = "load"
    /\ pc' = "fitted"
    /\ prob_func' = get_probability_distribution(stats_data, player_name, stat_type, n)
    /\ weights' = FitWeights(stats_data, player_name, stat_type, n)
    /\ fit_args' = [player |-> player_name, stat_type |-> stat_type, n |-> n]
    /\ query' = NoQuery
    /\ UNCHANGED <<stats_data, props_data, result, featVars, script, apiVars>>

ProbOverThreshold(x) ==
    /\ pc = "fitted"
    /\ prob_func.tag = "fn"
    /\ query' = [x |-> x, p |-> prob_over_threshold(prob_func, x)]
    /\ UNCHANGED <<stats_data, props_data, pc, prob_func, weights, fit_args, result, featVars, script, apiVars>>

(* the steps the table is asked for: 0.5 (the default), 0.4 and 0.25 *)
Steps == {DefaultStep, 8, 5}

(* get_probabilities_table with the arguments of the last fit *)
ProbabilitiesTable(step) ==
    /\ pc = "fitted"
    /\ query = NoQuery
    /\ result' = [op |-> "get_probabilities_table", step |-> step,
                  table |-> get_probabilities_table(stats_data, fit_args.player,
                                                    fit_args.stat_type, fit_args.n, step)]
    /\ pc' = "tabled"
    /\ UNCHANGED <<stats_data, props_data, fitVars, featVars, script, apiVars>>

(* The ranking pipelines run on a dataset loaded in runs: at most one game *)
(* of the first kind, then runs of RunLength games of one kind.             *)
RunLength == 5
MaxStats == 11      \* records loaded for a pipeline run
MaxProps == 3       \* props loaded for a pipeline run

PropPalette == <<
    [name |-> "A", stat_type |-> "Points", line_score |-> LineNum(90)],
    [name |-> "A", stat_type |-> "Points", line_score |-> LineNum(150)],
    [name |-> "Z", stat_type |-> "Points", line_score |-> LineNum(90)],
    [name |-> "A", stat_type |-> "Fantasy Score", line_score |-> LineNum(90)],
    [name |-> "A", stat_type |-> "Pts+Rebs", line_score |-> LineNum(90)],
    [name |-> "A", stat_type |-> "Points", line_score |-> LineNull] >>

LoadLead ==
    /\ pc = "load"
    /\ stats_data = <<>>
    /\ stats_data' = <<GamePalette[1]>>
    /\ UNCHANGED <<props_data, pc, fitVars, result, featVars, script, apiVars>>

(* a longer series of one player: SeasonGames games, minutes and points    *)
(* alternating between two kinds                                            *)
SeasonGames == 21

LoadSeason ==
    /\ pc = "load"
    /\ stats_data = <<>>
    /\ stats_data' = [j \in 1..SeasonGames |-> GamePalette[2 + (j % 2)]]
    /\ UNCHANGED <<props_data, pc, fitVars, result, featVars, script, apiVars>>

LoadRun(i) ==
    /\ pc = "load"
    /\ Len(stats_data) + RunLength <= MaxStats
    /\ IF stats_data = <<>> THEN TRUE ELSE PaletteIndex(stats_data[Len(stats_data)]) <= i
    /\ stats_data' = stats_data \o [j \in 1..RunLength |-> GamePalette[i]]
    /\ UNCHANGED <<props_data, pc, fitVars, result, featVars, script, apiVars>>

AddProp(k) ==
    /\ pc \in {"load", "props"}
    /\ Len(props_data) < MaxProps
    /\ props_data' = Append(props_data,
                            Prop(Len(props_data) + 1, PropPalette[k].name,
                                 PropPalette[k].stat_type, PropPalette[k].line_score))
    /\ pc' = "props"
    /\ UNCHANGED <<stats_data, fitVars, result, featVars, script, apiVars>>

FindBestProps ==
    /\ pc \in {"load", "props"}
    /\ result' = find_best_props(stats_data, props_data, DEFAULT_MIN_GAMES)
    /\ pc' = "done"
    /\ UNCHANGED <<stats_data, props_data, fitVars, featVars, script, apiVars>>

AnalyzeAllProps ==
    /\ pc \in {"load", "props"}
    /\ result' = analyze_all_props(stats_data, props_data)
    /\ pc' = "done"
    /\ UNCHANGED <<stats_data, props_data, fitVars, featVars, script, apiVars>>

Next ==
    \/ LoadLead
    \/ LoadSeason
    \/ \E i \in 2..5 : LoadRun(i)
    \/ \E k \in 1..Len(PropPalette) : AddProp(k)
    \/ FindBestProps
    \/ AnalyzeAllProps

Spec == Init /\ [][Next]_vars

(* The Feature Builder runs on a frame that starts with nothing or with a *)
(* history of WINDOW games of one player, followed by up to MaxRows rows.   *)
MaxRows == 3

RowPalette == <<
    Game("P1", MinClock(10), 2),
    Game("P1", MinNum(30), 6),
    Game("P1", MinDNP, 0),
    Game("P2", MinNum(20), 4),
    Game("P1", MinEmpty, 0) >>

LoadHistory ==
    /\ pc = "load"
    /\ df = <<>>
    /\ df' = [j \in 1..WINDOW |-> RowPalette[1 + (j % 2)]]
    /\ UNCHANGED <<stats_data, props_data, pc, fitVars, result, features, script, apiVars>>

AddRow(k) ==
    /\ pc = "load"
    /\ Len(df) < MaxRows \/ (Len(df) >= WINDOW /\ Len(df) < WINDOW + MaxRows)
    /\ df' = Append(df, RowPalette[k])
    /\ UNCHANGED <<stats_data, props_data, pc, fitVars, result, features, script, apiVars>>

BuildFeatures ==
    /\ pc = "load"
    /\ IF ParseRaises(df)
       THEN features' = <<>> /\ pc' = "raised"
       ELSE features' = BuildFeatureColumns(df) /\ pc' = "built"
    /\ UNCHANGED <<stats_data, props_data, fitVars, result, df, script, apiVars>>

NextFeat ==
    \/ LoadHistory
    \/ \E k \in 1..Len(RowPalette) : AddRow(k)
    \/ BuildFeatures

SpecFeat == Init /\ [][NextFeat]_vars

NextFit ==
    \/ \E i \in 1..Len(GamePalette) : AddGame(i)
    \/ LoadOutlier
    \/ \E p \in {"A"}, st \in {"Points", "Fantasy Score"}, n \in RecencyWindows : Fit(p, st, n)
    \/ \E x \in Thresholds : ProbOverThreshold(x)
    \/ \E step \in Steps : ProbabilitiesTable(step)

SpecFit == Init /\ [][NextFit]_vars

(* The loop of logit_for_all.py runs on one of the frames of FramePalette  *)
(* and on up to MaxProps props.                                             *)
FramePalette == <<
    << StatRow("P1", MinNum(30), 2, 7), StatRow("P1", MinClock(20), 6, 3),
       StatRow("P2", MinNum(10), 5, 1), StatRow("P1", MinNum(25), 4, 9) >>,
    << StatRow("P1", MinNum(30), 2, 7), StatRow("P1", MinDNP, 0, 0),
       StatRow("P1", MinNum(20), 6, 3), StatRow("P2", MinNum(10), 5, 9),
       StatRow("P2", MinNum(12), 1, 2), StatRow("P1", MinNum(25), 4, 4) >>,
    << StatRow("P1", MinNum(30), 4, 7), StatRow("P1", MinNum(20), 4, 3),
       StatRow("P1", MinEmpty, 0, 0) >> >>

LogitPropPalette == <<
    [name |-> "P1", stat_type |-> "Assists", line_score |-> LineNum(70)],
    [name |-> "P1", stat_type |-> "Rebounds", line_score |-> LineNum(110)],
    [name |-> "P2", stat_type |-> "Rebounds", line_score |-> LineNum(30)],
    [name |-> "P1", stat_type |-> "Points", line_score |-> LineNum(70)],
    [name |-> "Z", stat_type |-> "Assists", line_score |-> LineNum(70)],
    [name |-> "P2", stat_type |-> "Assists", line_score |-> LineNull] >>

LoadFrame(f) ==
    /\ script.pc = "start"
    /\ df = <<>>
    /\ df' = FramePalette[f]
    /\ UNCHANGED <<stats_data, props_data, pc, fitVars, result, features, script, apiVars>>

AddLogitProp(k) ==
    /\ script.pc = "start"
    /\ Len(props_data) < MaxProps
    /\ props_data' = Append(props_data,
                            Prop(Len(props_data) + 1, LogitPropPalette[k].name,
                                 LogitPropPalette[k].stat_type, LogitPropPalette[k].line_score))
    /\ UNCHANGED <<stats_data, pc, fitVars, result, featVars, script, apiVars>>

(* lines 38-57: with no record df["min"] is a KeyError, and astype(int)     *)
(* raises on a minutes field that is no number                              *)
PrepareFrame ==
    /\ script.pc = "start"
    /\ IF df = <<>> \/ ParseRaises(df)
       THEN script' = [pc |-> "raised"]
       ELSE script' = [pc |-> "loop", i |-> 0, frame |-> PreparedFrame(df), y |-> <<>>,
                       model |-> None, predictions |-> <<>>]
    /\ UNCHANGED <<stats_data, props_data, pc, fitVars, result, featVars, apiVars>>

LoopStep(test) ==
    /\ script.pc = "loop"
    /\ script.i < Len(props_data)
    /\ test \subseteq 1..Len(script.frame.rows)
    /\ Cardinality(test) = TestSize(Len(script.frame.rows))
    /\ script' = LoopBody(script, props_data[script.i + 1], test)
    /\ UNCHANGED <<stats_data, props_data, pc, fitVars, result, featVars, apiVars>>

(* lines 137-138 *)
WritePredictions ==
    /\ script.pc = "loop"
    /\ script.i = Len(props_data)
    /\ script' = [script EXCEPT !.pc = "done"]
    /\ UNCHANGED <<stats_data, props_data, pc, fitVars, result, featVars, apiVars>>

NextLoop ==
    \/ \E f \in 1..Len(FramePalette) : LoadFrame(f)
    \/ \E k \in 1..Len(LogitPropPalette) : AddLogitProp(k)
    \/ PrepareFrame
    \/ \E test \in SUBSET (1..Len(df)) : LoopStep(test)
    \/ WritePredictions

SpecLoop == Init /\ [][NextLoop]_vars

(* The request cache: calls of _make_request as the get_* methods make    *)
(* them, with the clock advancing by ClockStep seconds between calls.       *)
MaxCalls == 3
MaxTicks == 3
ClockStep == 1800

RequestPalette == <<
    [endpoint |-> "seasons", params |-> <<>>],
    [endpoint |-> "games", params |-> << <<"season", 2023>>, <<"team", 1>> >>],
    [endpoint |-> "games", params |-> << <<"team", 1>>, <<"season", 2023>> >>],
    [endpoint |-> "players", params |-> << <<"team", 1>>, <<"season", 2023>> >>] >>

Tick ==
    /\ now < MaxTicks * ClockStep
    /\ now' = now + ClockStep
    /\ UNCHANGED <<stats_data, props_data, pc, fitVars, result, featVars, script, cache, call>>

MakeRequest(r, outcome) ==
    /\ call.n < MaxCalls
    /\ LET done == _make_request(cache, now, call, RequestPalette[r].endpoint,
                                 RequestPalette[r].params, outcome)
       IN  cache' = done.files /\ call' = done.call
    /\ UNCHANGED <<stats_data, props_data, pc, fitVars, result, featVars, script, now>>

NextCache ==
    \/ Tick
    \/ \E r \in 1..Len(RequestPalette), outcome \in Outcomes : MakeRequest(r, outcome)

SpecCache == Init /\ [][NextCache]_vars

-----------------------------------------------------------------------------
(* Claims about the Distribution Estimator, checked under SpecFit *)

Fitted == pc = "fitted" /\ prob_func.tag = "fn"
(* every fitted model is first reached with no query made yet *)
FreshFit == Fitted /\ query = NoQuery
UpperBound == (MaxSeq(prob_func.values) * 3) \div 2
NumValidGames == Len(ValidGames(PlayerStats(stats_data, fit_args.player)))

(* C1: every value returned by prob_over_threshold of a fitted model, for  *)
(* any threshold (negative, inside the range, far above the maximum), lies  *)
(* in [0, 1].                                                               *)
C1_ProbInUnitInterval ==
    /\ query # NoQuery => query.p \in 0..PS
    /\ FreshFit => \A x \in Thresholds : prob_over_threshold(prob_func, x) \in 0..PS

(* a threshold above the upper bound of integration was queried: the       *)
(* integral is negative there and the returned value is 0                   *)
C1_Witness ==
    /\ Fitted
    /\ query # NoQuery
    /\ query.x > UpperBound
    /\ IntegrateBox1d(prob_func.kde, query.x, UpperBound) < 0
    /\ query.p = 0

(* C2: with fewer than 10 games that pass the mins > 0 filter the call     *)
(* returns None.                                                            *)
C2_FewValidGamesUnavailable ==
    (pc = "fitted" /\ NumValidGames < MIN_FIT_GAMES) => prob_func = None

(* C9: the survival function of a fitted model is non-increasing in the    *)
(* threshold.                                                               *)
C9_Monotone ==
    FreshFit => LET P == [x \in Thresholds |-> prob_over_threshold(prob_func, x)]
                IN  \A x1, x2 \in Thresholds : x1 < x2 => P[x1] >= P[x2]

(* a fitted model whose survival function strictly decreases inside the    *)
(* observed range and was queried there                                     *)
C9_Witness ==
    /\ Fitted
    /\ query # NoQuery
    /\ query.x = 110
    /\ prob_over_threshold(prob_func, 90) > query.p
    /\ query.p > prob_over_threshold(prob_func, 150)
    /\ prob_over_threshold(prob_func, 150) > 0

(* C10: whenever the weights are computed (a nonempty series of valid      *)
(* games), the normalized weights sum to 1 within the rounding of one unit  *)
(* per game.                                                                *)
C10_WeightsSumToOne ==
    (pc = "fitted" /\ weights.tag # "unset") =>
        /\ weights.tag = "ok"
        /\ Abs(SumSeq(weights.w) - WS) <= Len(weights.w)

(* C11: among the valid games of the fitted player, taken in the order of   *)
(* the series (a later record is a newer game, as player_stats[-10:] of     *)
(* line 218 takes it), no older game has a larger recency weight than a     *)
(* newer one, so the newest game has the largest.                           *)
C11_NewestWeighsMost ==
    (pc = "fitted" /\ weights.tag # "unset") =>
        LET rw == RecencyWeights(NumValidGames, fit_args.n)
        IN  \A older, newer \in 1..Len(rw) : older < newer => rw[older] <= rw[newer]

(* C21: for a fitted model, every threshold at or above 1.5 times the      *)
(* maximum observed value has probability 0, and every threshold inside the *)
(* observed range has a strictly greater probability.                       *)
C21_FarZeroInsidePositive ==
    FreshFit =>
        LET values == prob_func.values
            Far == {x \in Thresholds : 2 * x >= 3 * MaxSeq(values)}
            Inside == {x \in Thresholds : x <= MaxSeq(values) /\ \E j \in 1..Len(values) : values[j] <= x}
        IN  /\ \A x \in Far : prob_over_threshold(prob_func, x) = 0
            /\ \A x \in Inside, far \in Far :
                   prob_over_threshold(prob_func, x) > prob_over_threshold(prob_func, far)

(* C24: whenever the weights are computed, the minutes weight of every     *)
(* valid game lies in [0, 1] (its numerator over 2T in [0, 2T]), no         *)
(* normalized weight is negative and the sum of the weights is not zero.    *)
C24_WeightsNonNegative ==
    (pc = "fitted" /\ weights.tag # "unset") =>
        LET minutes == FloatMinutes(ValidGames(PlayerStats(stats_data, fit_args.player)))
            T == SumSeq(minutes)
            n == Len(minutes)
        IN  /\ \A j \in 1..n : minutes_weight_num(minutes[j], T, n) \in 0..(2 * T)
            /\ weights.tag = "ok"
            /\ ~weights.neg
            /\ \A j \in 1..Len(weights.w) : weights.w[j] >= 0

Tabled == pc = "tabled" /\ result.table # <<>>

(* C18: the thresholds of a table are 0, step, 2 step, ..., none above the *)
(* maximum of the fitted values, each with the (rounded) survival           *)
(* probability of that threshold.                                           *)
C18_TableThresholds ==
    Tabled => \A j \in 1..Len(result.table) :
        /\ result.table[j].threshold = (j - 1) * result.step
        /\ result.table[j].threshold <= MaxSeq(prob_func.values)
        /\ result.table[j].probability =
              RoundHalfEven(prob_over_threshold(prob_func, result.table[j].threshold), PS \div 1000)

(* C19 as stated: the fitted function returns, at each recorded threshold, *)
(* exactly the recorded probability.                                        *)
C19_TableRoundTripExact ==
    Tabled => \A j \in 1..Len(result.table) :
        prob_over_threshold(prob_func, result.table[j].threshold) = result.table[j].probability

(* C19 as amended: the recorded probability of entry j is the value the    *)
(* fitted function returns at the swept threshold (j - 1) step, rounded to  *)
(* 3 decimals; for a step that is a multiple of 0.5 the recorded threshold  *)
(* is that threshold, and feeding it back gives the same.                   *)
C19_TableRoundTripRounded ==
    Tabled => \A j \in 1..Len(result.table) :
        /\ RoundHalfEven(prob_over_threshold(prob_func, (j - 1) * result.step), PS \div 1000)
              = result.table[j].probability
        /\ result.step % DefaultStep = 0 =>
              RoundHalfEven(prob_over_threshold(prob_func, result.table[j].threshold),
                            PS \div 1000) = result.table[j].probability

(* a table of the default step with an entry whose probability the         *)
(* rounding changed, strictly between 0 and 1                               *)
C19_Witness ==
    /\ Tabled
    /\ result.step = DefaultStep
    /\ \E j \in 1..Len(result.table) :
          /\ result.table[j].probability \in 1..(PS - 1)
          /\ prob_over_threshold(prob_func, result.table[j].threshold) # result.table[j].probability

-----------------------------------------------------------------------------
(* Claims about the ranking pipelines, checked under Spec *)

Ran == pc = "done"
Returned == Ran /\ result.status = "returned"
OutIds == {result.out[j].prop.projection_id : j \in 1..Len(result.out)}
KeyOf(item) == IF result.op = "find_best_props" THEN item.score ELSE item.over_line
LoggedFor(name) == \E j \in 1..Len(result.log) : result.log[j].who = name

(* C4: a prop that fails (a null line_score) never aborts the run: the    *)
(* pipeline reaches every prop of its input and returns a list.             *)
C4_NoAbort ==
    Ran => (result.status = "returned" /\ result.seen = Len(props_data))

(* C5: every AnalyzedProp of the output carries its probability estimate. *)
C5_EmittedHasProbability ==
    Returned => \A j \in 1..Len(result.out) :
                    "probability_over_line" \in result.out[j].analysis.keys

(* C6: a prop whose player has no record in the dataset yields no         *)
(* AnalyzedProp and a logged skip reason.                                   *)
C6_UnknownPlayerSkippedAndLogged ==
    Returned => \A j \in 1..Len(props_data) :
                    PlayerStats(stats_data, props_data[j].name) = <<>> =>
                        /\ props_data[j].projection_id \notin OutIds
                        /\ LoggedFor(props_data[j].name)

(* C7: a prop whose stat type is absent from the mapping, or mapped to no  *)
(* stat field, yields no AnalyzedProp.                                      *)
C7_UnsupportedStatSkipped ==
    Returned => \A j \in 1..Len(result.out) :
                    STAT_TYPE_MAPPING(result.out[j].prop.stat_type) # "None"

(* C8: the returned list is a permutation of the emitted items, in         *)
(* non-increasing key order, items of equal key in input order.             *)
C8_SortedStable ==
    Returned =>
        /\ Len(result.out) = Len(result.emitted)
        /\ \A j \in 1..Len(result.emitted) : \E i \in 1..Len(result.out) : result.out[i] = result.emitted[j]
        /\ \A i, j \in 1..Len(result.out) :
              i < j => /\ KeyOf(result.out[i]) >= KeyOf(result.out[j])
                       /\ KeyOf(result.out[i]) = KeyOf(result.out[j])
                            => result.out[i].prop.projection_id < result.out[j].prop.projection_id

(* three items were emitted, the sort moved them, and two of them tie *)
C8_Witness ==
    /\ Returned
    /\ result.op = "analyze_all_props"
    /\ Len(result.out) = 3
    /\ result.out # result.emitted
    /\ KeyOf(result.out[1]) = KeyOf(result.out[2])
    /\ KeyOf(result.out[2]) > KeyOf(result.out[3])

(* the stat values of the player's games with valid nonzero minutes *)
ValidValuesOf(prop) ==
    FloatValues(ValidGames(PlayerStats(stats_data, prop.name)), STAT_TYPE_MAPPING(prop.stat_type))

(* C12: in every emitted analysis the full-series aggregates are taken over *)
(* the games with valid nonzero minutes, and the recent-window aggregates   *)
(* over the last 10 of those games.                                         *)
C12_AggregatesFromPlayedGames ==
    Returned => \A j \in 1..Len(result.out) :
        LET item == result.out[j]
            played == ValidValuesOf(item.prop)
        IN  /\ item.analysis.games_played = Len(played)
            /\ item.analysis.recent_values = LastN(played, RECENT_GAMES)

(* C25: every item returned by find_best_props(min_games) has             *)
(* games_played >= min_games, and times_above_line <= games_played.         *)
C25_MinGamesOfAnalysis ==
    (Returned /\ result.op = "find_best_props") =>
        \A j \in 1..Len(result.out) :
            LET a == result.out[j].analysis
            IN  /\ a.games_played >= DEFAULT_MIN_GAMES
                /\ a.times_above_line <= a.games_played

(* the density estimation of the prop's player raises (line 142) *)
FitFails(prop) ==
    FitBody(stats_data, prop.name, prop.stat_type, DEFAULT_NUM_RECENT_GAMES).tag = "raise"

(* C15: a prop whose fit fails numerically is reported with the            *)
(* probability 0.0.                                                         *)
C15_FitFailureReportsZero ==
    Returned => \A j \in 1..Len(props_data) :
        (props_data[j].line_score.k = "num" /\ FitFails(props_data[j])) =>
            \E i \in 1..Len(result.out) :
                /\ result.out[i].prop = props_data[j]
                /\ "probability_over_line" \in result.out[i].analysis.keys
                /\ result.out[i].analysis.probability_over_line = 0

(* the places of the output that hold the prop *)
PlacesOf(prop) == {i \in 1..Len(result.out) : result.out[i].prop = prop}

(* C16: a prop whose player has at least the minimum number of records and *)
(* whose stat type is mapped to a stat field has exactly one AnalyzedProp   *)
(* in the output.                                                           *)
C16_ExactlyOneAnalyzedProp ==
    Returned => \A j \in 1..Len(props_data) :
        (/\ Len(PlayerStats(stats_data, props_data[j].name)) >= DEFAULT_MIN_GAMES
         /\ STAT_TYPE_MAPPING(props_data[j].stat_type) # "None")
            => Cardinality(PlacesOf(props_data[j])) = 1

(* 0.4 hit rate + 0.3 (average difference / 10) + 0.2 / (1 + stdev)        *)
(* + 0.1 min(games / 20, 1), in 1/PS; the stdev is in 1/100, the average    *)
(* difference in 1/XS                                                       *)
ScoreOf(a) ==
    (4000 * a.times_above_line) \div a.games_played
    + (300 * a.average_difference) \div XS
    + (2000 * 100) \div (100 + a.minutes_stdev)
    + (IF a.games_played >= 20 THEN 1000 ELSE 50 * a.games_played)

(* C17: every analysis find_best_props scores has a positive number of     *)
(* games and a non-negative stdev (no division by zero), its score is the   *)
(* weighted sum of the four factors, and the empty summary scores 0.        *)
C17_ScoreFormula ==
    /\ calculate_prop_score(EmptyAnalysis) = 0
    /\ (Ran /\ result.op = "find_best_props") =>
            \A j \in 1..Len(result.emitted) :
                LET a == result.emitted[j].analysis
                IN  /\ a.games_played > 0
                    /\ a.minutes_stdev >= 0
                    /\ result.emitted[j].score = ScoreOf(a)

(* a scored analysis of more than 20 games, some above the line and some   *)
(* not, with varying minutes                                                *)
C17_Witness ==
    /\ Ran
    /\ result.op = "find_best_props"
    /\ \E j \in 1..Len(result.emitted) :
          LET a == result.emitted[j].analysis
          IN  /\ a.games_played > 20
              /\ a.times_above_line \in 1..(a.games_played - 1)
              /\ a.minutes_stdev > 0
              /\ a.average_difference > 0
              /\ result.emitted[j].score = ScoreOf(a)

(* the entries of the item's probability table at its line *)
TableAtLine(item) ==
    {item.probability_table[k].probability : k \in
        {k \in 1..Len(item.probability_table) :
            item.probability_table[k].threshold = item.prop.line_score.v}}

-----------------------------------------------------------------------------
(* Claims about the Feature Builder, checked under SpecFeat *)

Built == pc = "built"
OtherMinutes == {MinNum(12), MinClock(45)}
OtherStats == {0, 9}
WithMinutes(rows, i, mn) == [rows EXCEPT ![i].min = mn]
WithStat(rows, i, v) == [rows EXCEPT ![i].points = v]
Kept(rows) == FilterFrame(rows)
(* after a change of row n, the features of the rows up to n, and of every *)
(* row of another player, agree with the ones built                         *)
SameUpTo(rows, n) ==
    \A j \in 1..Len(rows) :
        (j <= n \/ rows[j].player # rows[n].player) => BuildFeatureColumns(rows)[j] = features[j]

(* C3: changing the stat or the minutes of game i leaves the four features *)
(* of every game at an index <= i, and of every other player's games, as    *)
(* they were.                                                               *)
C3_NoLookAhead ==
    Built => \A i \in 1..Len(Kept(df)) :
                /\ \A v \in OtherStats : SameUpTo(WithStat(Kept(df), i, v), i)
                /\ \A mn \in OtherMinutes : SameUpTo(WithMinutes(Kept(df), i, mn), i)

(* a row with a usable minutes field *)
PlayedRow(row) == row.min.k \in {"num", "mmss"}

(* C13: the script never fails on a sentinel, missing or empty minutes     *)
(* field, and the features are the ones of the frame without those rows.    *)
C13_UnplayedRowsFiltered ==
    pc \in {"built", "raised"} =>
        /\ pc = "built"
        /\ features = BuildFeatureColumns(SelectSeq(df, PlayedRow))

(* the rows of the filtered frame before row j that are of row j's player, *)
(* and the last WINDOW of them                                              *)
Before(j) == {i \in 1..(j - 1) : Kept(df)[i].player = Kept(df)[j].player}
JustBefore(j) == {i \in Before(j) : Cardinality({k \in Before(j) : k > i}) < WINDOW}

RECURSIVE SumOver(_, _)
SumOver(S, val) ==
    IF S = {} THEN 0
    ELSE LET i == CHOOSE i \in S : TRUE IN val[i] + SumOver(S \ {i}, val)

(* the mean of val over S in 1/100, 0 for no game *)
MeanOver(S, val) == IF S = {} THEN 0 ELSE (SumOver(S, val) * 100) \div Cardinality(S)

C3_Witness ==
    /\ Built
    /\ Len(features) > WINDOW + 1
    /\ LET n == Len(Kept(df))
       IN  /\ Kept(df)[n].player = Kept(df)[n - 1].player
           /\ BuildFeatureColumns(WithStat(Kept(df), n - 1, 9))[n] # features[n]
           /\ features[n].moving_avg_stat # features[n].historical_avg_stat

-----------------------------------------------------------------------------
(* Claims about the request cache, checked under SpecCache *)

Called == call.n > 0

(* the cache keys that held, before the last call, a file that loads, is    *)
(* younger than cache_ttl at the time of the call and was written for the   *)
(* call's endpoint and set of parameters                                    *)
FreshEntries ==
    {k \in DOMAIN call.before :
        /\ k.endpoint = call.endpoint
        /\ ItemsOf(k.items) = ItemsOf(call.params)
        /\ call.before[k].tag = "json"
        /\ call.at - call.before[k].cached_at < cache_ttl}

-----------------------------------------------------------------------------
(* Claims about the loop of logit_for_all.py, checked under SpecLoop *)

Looping == script.pc \in {"loop", "done"}

(* the frame, features and labels a prop gets when it is the only prop of   *)
(* the run                                                                  *)
OwnFrame(p) == AssignStatColumns(PreparedFrame(df), STAT_MAP(p.stat_type))
OwnLabels(p) == Labels(FilterFrame(df), STAT_MAP(p.stat_type), p.value)

(* C22: the prediction recorded for a prop uses a model fitted on the      *)
(* labels (stat > that prop's line_score) and on the stat feature columns   *)
(* of that prop's own stat, as if it were the only prop of the run, and so  *)
(* do the features it is applied to and its model_info.                     *)
C22_PredictionFromOwnIteration ==
    Looping => \A n \in 1..Len(script.predictions) :
        LET p == script.predictions[n]
            X == FeatureMatrix(OwnFrame(p))
            y == OwnLabels(p)
            train == DOMAIN p.probability.model.X
            test == DOMAIN p.model_info.X_test
        IN  /\ p.probability.model = LogisticRegression(X, y, train)
            /\ p.probability.at = X[PlayerRecord(FilterFrame(df), p.player_name)]
            /\ p.model_info = ModelInfo(LogisticRegression(X, y, train), X, y, test)
            /\ n = Len(script.predictions) =>
                   (script.model = p.probability.model /\ script.frame = OwnFrame(p))

(* two predictions for different stats, the second recorded after a prop    *)
(* that was skipped, whose training features and labels differ              *)
C22_Witness ==
    /\ script.pc = "done"
    /\ Len(props_data) = 3
    /\ Len(script.predictions) = 2
    /\ props_data[2].stat_type = "Points"
    /\ script.predictions[1].stat_type # script.predictions[2].stat_type
    /\ \E j \in DOMAIN script.predictions[1].probability.model.X
                \cap DOMAIN script.predictions[2].probability.model.X :
          /\ script.predictions[1].probability.model.X[j]
                # script.predictions[2].probability.model.X[j]
          /\ script.predictions[1].probability.model.y[j]
                # script.predictions[2].probability.model.y[j]

====
